---- MODULE Spec2Model ----
(***************************************************************************)
(* State-machine model of live_bot.py: the cooldown file, the scheduled    *)
(* signal-check cycle (check_for_signals), the per-symbol evaluation on    *)
(* the prepared base-timeframe frame, the Telegram notification and the    *)
(* cooldown write.  Time is counted in whole minutes.                      *)
(***************************************************************************)
EXTENDS Integers, Sequences, FiniteSets, TLC

\* ------------------------------------------------------------------------
\* Program constants (config.py).  Fractions are kept exact: a percentage
\* is a numerator over a denominator, an ATR multiplier is held in tenths.
\* ------------------------------------------------------------------------
SIGNAL_COOLDOWN_MINUTES == 30
BOT_SCHEDULE_MINUTES == 1
BOT_TIMEFRAME_MINUTES == 5
ATR_TIMEFRAME_MINUTES == 60
FOUR_HOUR_MINUTES == 240
RSI_TIMEFRAME_MINUTES == 240
ADX_TIMEFRAME_MINUTES == 240
BTC_FAST_TIMEFRAME_MINUTES == 240
PRICE_BOOM_PERIOD_H == 24
PRICE_SLOWDOWN_PERIOD_H == 4
PRICE_BOOM_PCT_NUM == 1
PRICE_BOOM_PCT_DEN == 10
PRICE_SLOWDOWN_PCT_NUM == 1
PRICE_SLOWDOWN_PCT_DEN == 100
SL_ATR_MULT == 3
TP_ATR_MULT == 3
PARTIAL_TP_ATR_MULT_TENTHS == 10
TRAIL_ATR_MULT_TENTHS == 15
RSI_ENTRY_MIN == 40
RSI_ENTRY_MAX == 65
ATR_FETCH_LIMIT == 200
RSI_FETCH_LIMIT == 200
ADX_FETCH_LIMIT == 200
EMA_FETCH_LIMIT == 300
BTC_FETCH_LIMIT == 100

\* Values of the SHOW_* and *_ENABLED switches as config.py sets them.
ConfigFlags ==
  [ SHOW_EMA_TREND_CONTEXT |-> TRUE, SHOW_RSI_CONTEXT |-> TRUE,
    SHOW_ADX_CONTEXT |-> TRUE, SHOW_STRUCTURAL_CONTEXT |-> TRUE,
    SHOW_BTC_FAST_FILTER_CONTEXT |-> TRUE, BTC_FAST_FILTER_ENABLED |-> TRUE ]

\* Every setting of the switches.
AllFlags ==
  [ SHOW_EMA_TREND_CONTEXT : BOOLEAN, SHOW_RSI_CONTEXT : BOOLEAN,
    SHOW_ADX_CONTEXT : BOOLEAN, SHOW_STRUCTURAL_CONTEXT : BOOLEAN,
    SHOW_BTC_FAST_FILTER_CONTEXT : BOOLEAN, BTC_FAST_FILTER_ENABLED : BOOLEAN ]

\* ------------------------------------------------------------------------
\* Bounds of the model.
\* ------------------------------------------------------------------------
MaxTime == 36         \* the clock runs over 0..MaxTime minutes
MaxExtraBars == 2     \* a base fetch returns up to BOOM_BAR_COUNT + MaxExtraBars rows
MaxFaultTime == 2     \* the clock of the runs with kills
MaxCrashes == 2       \* kills of the process in the middle of a cycle
MaxDelay == 1         \* minutes that may pass between the send and the write
MaxSourceBars == 30   \* rows of the ATR frame in the runs on concrete frames
MaxSlowTime == 3      \* the clock of the runs with cycles that take time

\* Symbols of symbols.txt after .upper(); one content lists "A" twice.
Symbols == {"A", "B"}
ListABA == <<"A", "B", "A">>
ListA == <<"A">>

\* ------------------------------------------------------------------------
\* Floats: a defined number is <<v>>, NaN is <<>>.  Arithmetic propagates
\* NaN as IEEE arithmetic does; pd.notna is "not NaN".
\* ------------------------------------------------------------------------
NaN == <<>>
Num(v) == <<v>>
notna(x) == x # NaN
FAdd(x, y) == IF notna(x) /\ notna(y) THEN Num(x[1] + y[1]) ELSE NaN
FSub(x, y) == IF notna(x) /\ notna(y) THEN Num(x[1] - y[1]) ELSE NaN
FScale(k, x) == IF notna(x) THEN Num(k * x[1]) ELSE NaN

\* x / q rounded to the nearest integer, a tie to the even one.
round_half_even(x, q) ==
  LET lo == x \div q
      rest == x % q
  IN IF 2 * rest < q THEN lo
     ELSE IF 2 * rest > q THEN lo + 1
     ELSE IF lo % 2 = 0 THEN lo ELSE lo + 1

\* f"{x:.4f}" and f"{x:.5f}" of a value held in millionths: q is the number
\* of millionths in the last digit that is printed (100 for .4f, 10 for
\* .5f).  A NaN is rendered as the text nan, a number as its digits, in
\* units of the last printed digit.
Fmt(x, q) == IF notna(x) THEN <<"num", round_half_even(x[1], q)>> ELSE <<"nan">>

\* ------------------------------------------------------------------------
\* Timestamps and the cooldown file.
\* ------------------------------------------------------------------------
\* Timestamp.isoformat() of a UTC-aware timestamp / pd.to_datetime of it.
isoformat(t) == <<t, "+00:00">>
to_datetime(s) == s[1]

EmptyDict == [s \in {} |-> isoformat(0)]

\* Variant: the mapping is reduced to the one entry that is set.
DictSet_alone(d, k, v) == [s \in {k} |-> v]

\* Variant: an entry that is already there is kept.
DictSet_keep_earlier(d, k, v) ==
  [s \in (DOMAIN d) \cup {k} |-> IF s \in DOMAIN d THEN d[s] ELSE v]

\* cooldowns[symbol] = value
DictSet(d, k, v) == [s \in (DOMAIN d) \cup {k} |-> IF s = k THEN v ELSE d[s]]

\* Content of signal_cooldowns.json on disk.
\*   missing     no such file
\*   object      a complete JSON object, data holds it
\*   partial     opened for writing and truncated, dump not finished
\*   undecodable bytes that are not valid UTF-8
\*   unreadable  the file exists and open() is refused
FileMissing == [kind |-> "missing", data |-> EmptyDict]
FileObject(d) == [kind |-> "object", data |-> d]
FilePartial == [kind |-> "partial", data |-> EmptyDict]
FileUndecodable == [kind |-> "undecodable", data |-> EmptyDict]
FileUnreadable == [kind |-> "unreadable", data |-> EmptyDict]

\* load_cooldowns: the exception it lets escape, "" when it returns.
load_raises(f) ==
  CASE f.kind = "missing" -> ""
    [] f.kind = "object" -> ""
    [] f.kind = "partial" -> ""                    \* JSONDecodeError, caught
    [] f.kind = "undecodable" -> "UnicodeDecodeError"
    [] f.kind = "unreadable" -> "PermissionError"

\* load_cooldowns: the mapping it returns when it returns.
load_cooldowns(f) == IF f.kind = "object" THEN f.data ELSE EmptyDict

\* ------------------------------------------------------------------------
\* Data preparation (_prep_live_data).
\* ------------------------------------------------------------------------
BARS_PER_HOUR == 60 \div BOT_TIMEFRAME_MINUTES
BOOM_BAR_COUNT == BARS_PER_HOUR * PRICE_BOOM_PERIOD_H
SLOWDOWN_BAR_COUNT == BARS_PER_HOUR * PRICE_SLOWDOWN_PERIOD_H

\* Outcome of the five essential fetches of one symbol: base is the number of
\* rows of the base-timeframe frame (0: fetch_bybit_data returned None),
\* others tells whether the 4h, ATR, RSI and ADX fetches all returned data.
FetchResults ==
  [ base : {0} \cup (BOOM_BAR_COUNT .. BOOM_BAR_COUNT + MaxExtraBars),
    others : BOOLEAN ]

\* All fetches return data and the base frame is missing, one row longer
\* than the boom look-back, or as long as the model lets it be.
FewFetches ==
  { [base |-> n, others |-> TRUE] :
      n \in {0, BOOM_BAR_COUNT + 1, BOOM_BAR_COUNT + MaxExtraBars} }

\* Rows of the frame _prep_live_data returns, -1 when it returns None.
\* shift(k) leaves the first k rows undefined and dropna removes every row
\* where either look-back is undefined.
prep_rows(f) ==
  IF f.base = 0 \/ ~f.others THEN -1
  ELSE LET lead == IF BOOM_BAR_COUNT > SLOWDOWN_BAR_COUNT
                   THEN BOOM_BAR_COUNT ELSE SLOWDOWN_BAR_COUNT
       IN IF f.base > lead THEN f.base - lead ELSE 0

\* Open time of the bar of the given interval that is running at time t.
bar_open(t, interval) == (t \div interval) * interval

\* A bar opened at ts is still in progress at time t.
in_progress(ts, interval, t) == ts + interval > t

\* Timestamp of row k (1-based) of a frame of n contiguous bars fetched at
\* time t: the last row is the bar running at t.
row_timestamp(t, interval, n, k) == bar_open(t, interval) - (n - k) * interval

\* df_prep.iloc[-2]: position in the base frame of the row that is evaluated.
last_candle_pos(f) == f.base - 1

\* last_candle.name
last_candle_ts(t, f) ==
  row_timestamp(t, BOT_TIMEFRAME_MINUTES, f.base, last_candle_pos(f))

\* source.reindex(base.index, method="ffill") at base timestamp T: timestamp
\* of the source row carried onto T (the greatest source timestamp <= T),
\* <<>> when T precedes the first source row.  The source frame holds the
\* `limit` most recent bars of its interval as of fetch time t.
ffill_source(T, interval, t, limit) ==
  LET first == row_timestamp(t, interval, limit, 1)
      at == bar_open(T, interval)
  IN IF at >= first THEN <<at>> ELSE <<>>

\* Where each value on the evaluated row comes from: source timestamps of the
\* aligned indicator columns, and of the close ret_30d is computed from
\* (df5['close'].iloc[-1]).
row_sources(t, f) ==
  LET T == last_candle_ts(t, f)
  IN [ bar |-> T,
       atr |-> ffill_source(T, ATR_TIMEFRAME_MINUTES, t, ATR_FETCH_LIMIT),
       ema |-> ffill_source(T, FOUR_HOUR_MINUTES, t, EMA_FETCH_LIMIT),
       rsi |-> ffill_source(T, RSI_TIMEFRAME_MINUTES, t, RSI_FETCH_LIMIT),
       adx |-> ffill_source(T, ADX_TIMEFRAME_MINUTES, t, ADX_FETCH_LIMIT),
       btc |-> ffill_source(T, BTC_FAST_TIMEFRAME_MINUTES, t, BTC_FETCH_LIMIT),
       ret |-> row_timestamp(t, BOT_TIMEFRAME_MINUTES, f.base, f.base) ]

\* ------------------------------------------------------------------------
\* Data preparation on concrete frames.  A frame is the sequence of its rows
\* in index order; a row is a record with the index label ts and one field
\* per column.
\* ------------------------------------------------------------------------
\* Lines 172-174 for a base timeframe of tf minutes ("<tf>m"): // is floor
\* division.
bars_per_hour(tf) == 60 \div tf
boom_bar_count(tf) == bars_per_hour(tf) * PRICE_BOOM_PERIOD_H
slowdown_bar_count(tf) == bars_per_hour(tf) * PRICE_SLOWDOWN_PERIOD_H

\* Rows the base fetch returns (0: None): none that survives dropna, one,
\* and two or more.
BaseLengths(tf) ==
  {0, 1, slowdown_bar_count(tf) + 1, boom_bar_count(tf),
   boom_bar_count(tf) + 1, boom_bar_count(tf) + MaxExtraBars}

\* Rows the ATR fetch returns (0: None): fewer hours than the base frame
\* spans, and more.
SourceLengths == {0, 1, 3, MaxSourceBars}

\* Closes of a fetched base frame by row number: rising or falling, so that
\* no two rows of a frame have the same close.
CloseShapes == {"rising", "falling"}
close_of(shape, k) == IF shape = "rising" THEN 100 + k ELSE 900 - k

\* fetch_bybit_data for the base timeframe at time t: n bars up to the one in
\* progress, columns timestamp (the index) and close.
base_frame(t, tf, n, shape) ==
  [k \in 1..n |-> [ts |-> row_timestamp(t, tf, n, k), close |-> Num(close_of(shape, k))]]

\* The ATR frame after line 139: m hourly bars up to the one in progress, the
\* indicator undefined on the first `warm` rows; the bar `hole` rows before
\* the last is missing from what the exchange returned when hole > 0.
atr_frame(t, m, warm, hole) ==
  LET full == [k \in 1..m |->
                 [ts |-> row_timestamp(t, ATR_TIMEFRAME_MINUTES, m, k),
                  atr |-> IF k <= warm THEN NaN ELSE Num(k)]]
      kept(r) == hole = 0 \/ r.ts # row_timestamp(t, ATR_TIMEFRAME_MINUTES, m, m - hole)
  IN SelectSeq(full, kept)

\* Variant: the source row must be strictly earlier than the base label.
RECURSIVE pad_position_strict(_, _, _)
pad_position_strict(src, T, j) ==
  IF j < Len(src) /\ src[j + 1].ts < T THEN pad_position_strict(src, T, j + 1) ELSE j

\* The pad (forward-fill) indexer of reindex: sweeping the source rows in
\* index order from row j, the position of the last one whose label is not
\* later than T; 0 when there is none.
RECURSIVE pad_position(_, _, _)
pad_position(src, T, j) ==
  IF j < Len(src) /\ src[j + 1].ts <= T THEN pad_position(src, T, j + 1) ELSE j

\* src[col].reindex(index, method="ffill"): one value per label of index, NaN
\* where the indexer found no row.
reindex_ffill(src, col, index) ==
  [k \in 1..Len(index) |->
     LET j == pad_position(src, index[k], 0)
     IN IF j = 0 THEN NaN ELSE src[j][col]]

\* The index and a column of a frame.
index_of(df) == [k \in 1..Len(df) |-> df[k].ts]
column(df, col) == [k \in 1..Len(df) |-> df[k][col]]

\* Variant: the values move one row further down.
shift_one_more(values, n) ==
  SubSeq([k \in 1..(n + 1) |-> NaN] \o values, 1, Len(values))

\* Series.shift(n): the values move n rows down, the first n rows are NaN
\* and the frame keeps its length.
shift(values, n) ==
  SubSeq([k \in 1..n |-> NaN] \o values, 1, Len(values))

\* Line 178: df5.dropna(subset=['close_boom_ago', 'close_slowdown_ago']).
dropna(df) ==
  LET both(r) == notna(r.close_boom_ago) /\ notna(r.close_slowdown_ago)
  IN SelectSeq(df, both)

\* ------------------------------------------------------------------------
\* Inputs: values on the evaluated row.  Closes are positive integers
\* (ten-thousandths), indicator values are floats that may be NaN; an ATR is
\* in hundred-thousandths, so Num(2) is 0.00002 and Num(20) is 0.0002.
\* ------------------------------------------------------------------------
MakeRow(c, cb, cs, atr, ef, es, rsi, adx, ret) ==
  [ close |-> c, close_boom_ago |-> cb, close_slowdown_ago |-> cs,
    atr |-> atr, ema_fast_4h |-> ef, ema_slow_4h |-> es,
    rsi |-> rsi, adx |-> adx, ret_30d |-> ret ]

\* Closes around both thresholds: 220/200 is a boom of exactly 10%, 202/200
\* a slowdown of exactly 1%.
Closes == {202, 203, 220}
BoomAgo == {183, 184, 200}
SlowAgo == {200, 218}

\* <<fast, slow>> 4h EMA: fast below slow, above it, and either undefined.
EmaPairs == {<<Num(1), Num(2)>>, <<Num(3), Num(2)>>, <<NaN, Num(2)>>, <<Num(1), NaN>>}

RichRows ==
  { MakeRow(c, cb, cs, atr, e[1], e[2], rsi, adx, ret) :
      c \in Closes, cb \in BoomAgo, cs \in SlowAgo,
      atr \in {NaN, Num(2), Num(20)},
      e \in EmaPairs,
      rsi \in {NaN, Num(RSI_ENTRY_MIN - 1), Num(RSI_ENTRY_MAX)},
      adx \in {NaN, Num(25)}, ret \in {NaN, Num(-20)} }

\* A few rows for the runs that explore time: one with no signal, two that
\* signal (ATR defined and not).
FewRows ==
  { MakeRow(201, 200, 200, Num(20), Num(1), Num(2), Num(50), Num(25), Num(-20)),
    MakeRow(220, 200, 218, Num(20), Num(1), Num(2), Num(50), Num(25), Num(-20)),
    MakeRow(220, 200, 218, NaN, NaN, NaN, NaN, NaN, NaN) }

\* BTC row aligned onto the evaluated bar (close, ema).
BtcRows ==
  { [close |-> NaN, ema |-> Num(2)], [close |-> Num(1), ema |-> NaN],
    [close |-> Num(1), ema |-> Num(2)], [close |-> Num(3), ema |-> Num(2)] }
FewBtcRows == { [close |-> Num(3), ema |-> Num(2)] }

\* ------------------------------------------------------------------------
\* Signal evaluation (body of the loop of check_for_signals).
\* ------------------------------------------------------------------------
\* Variant: the test against the evaluated bar is left out.
bar_in_cooldown_never(cd, sym, ts) == FALSE

\* Variant: the boom test is strict.
boom_strict(r) ==
  (r.close - r.close_boom_ago) * PRICE_BOOM_PCT_DEN
      > PRICE_BOOM_PCT_NUM * r.close_boom_ago

\* Variant: a defined ADX is required for a signal.
is_core_signal_adx_gated(r) ==
  /\ (r.close - r.close_boom_ago) * PRICE_BOOM_PCT_DEN
        >= PRICE_BOOM_PCT_NUM * r.close_boom_ago
  /\ (r.close - r.close_slowdown_ago) * PRICE_SLOWDOWN_PCT_DEN
        <= PRICE_SLOWDOWN_PCT_NUM * r.close_slowdown_ago
  /\ notna(r.adx)

\* Line 208-211: the entry is still in the future.
is_cooling_down(cd, sym, t) ==
  sym \in DOMAIN cd /\ t < to_datetime(cd[sym])

\* Line 223: the entry is later than the evaluated bar.
bar_in_cooldown(cd, sym, ts) ==
  sym \in DOMAIN cd /\ to_datetime(cd[sym]) > ts

\* (close - close_boom_ago) / close_boom_ago >= PRICE_BOOM_PCT, closes > 0.
boom(r) ==
  (r.close - r.close_boom_ago) * PRICE_BOOM_PCT_DEN
      >= PRICE_BOOM_PCT_NUM * r.close_boom_ago

\* (close - close_slowdown_ago) / close_slowdown_ago <= PRICE_SLOWDOWN_PCT.
slow(r) ==
  (r.close - r.close_slowdown_ago) * PRICE_SLOWDOWN_PCT_DEN
      <= PRICE_SLOWDOWN_PCT_NUM * r.close_slowdown_ago

is_core_signal(r) == boom(r) /\ slow(r)

\* Context lines of the alert, in the order they are appended.  A line is
\* <<filter, status>>.
ema_lines(r, fl) ==
  IF ~fl.SHOW_EMA_TREND_CONTEXT THEN <<>>
  ELSE IF notna(r.ema_fast_4h) /\ notna(r.ema_slow_4h)
       THEN << <<"EMA", IF r.ema_fast_4h[1] < r.ema_slow_4h[1] THEN "ok" ELSE "fail">> >>
       ELSE << <<"EMA", "N/A">> >>

\* Variant: the RSI is compared without the notna test; a comparison with NaN
\* is false.
rsi_lines_unguarded(r, fl) ==
  IF fl.SHOW_RSI_CONTEXT
  THEN << <<"RSI", IF notna(r.rsi) /\ RSI_ENTRY_MIN <= r.rsi[1] /\ r.rsi[1] <= RSI_ENTRY_MAX
                   THEN "ok" ELSE "fail">> >>
  ELSE <<>>

rsi_lines(r, fl) ==
  IF fl.SHOW_RSI_CONTEXT /\ notna(r.rsi)
  THEN << <<"RSI", IF RSI_ENTRY_MIN <= r.rsi[1] /\ r.rsi[1] <= RSI_ENTRY_MAX
                   THEN "ok" ELSE "fail">> >>
  ELSE <<>>

adx_lines(r, fl) ==
  IF fl.SHOW_ADX_CONTEXT /\ notna(r.adx) THEN << <<"ADX", "value">> >> ELSE <<>>

ret_lines(r, fl) ==
  IF fl.SHOW_STRUCTURAL_CONTEXT /\ notna(r.ret_30d) THEN << <<"30d", "value">> >> ELSE <<>>

\* b is <<>> when btc_df is None, else <<row>>.
btc_lines(b, fl) ==
  IF fl.SHOW_BTC_FAST_FILTER_CONTEXT /\ b # <<>>
     /\ notna(b[1].close) /\ notna(b[1].ema)
  THEN << <<"BTC", IF b[1].close[1] > b[1].ema[1] THEN "fail" ELSE "ok">> >>
  ELSE <<>>

context_lines(r, b, fl) ==
  ema_lines(r, fl) \o rsi_lines(r, fl) \o adx_lines(r, fl)
    \o ret_lines(r, fl) \o btc_lines(b, fl)

\* The filters whose values on the evaluated row (for BTC: on the aligned
\* BTC row, or the BTC frame itself) are undefined.
undefined_filters(r, b) ==
  {f \in {"EMA"} : ~(notna(r.ema_fast_4h) /\ notna(r.ema_slow_4h))}
    \cup {f \in {"RSI"} : ~notna(r.rsi)}
    \cup {f \in {"ADX"} : ~notna(r.adx)}
    \cup {f \in {"30d"} : ~notna(r.ret_30d)}
    \cup {f \in {"BTC"} : b = <<>> \/ ~notna(b[1].close) \/ ~notna(b[1].ema)}

\* The alert text.  A close is held in ten-thousandths of the quote currency
\* and an ATR in hundred-thousandths; the trade parameters are computed in
\* millionths, where the 1.0 x and 1.5 x ATR multiples are whole numbers, and
\* printed with four decimals (the trail distance with five).
build_message(sym, r, b, fl) ==
  LET entry_price == Num(100 * r.close)
      stop_loss == FAdd(entry_price, FScale(10 * SL_ATR_MULT, r.atr))
      partial_tp_price == FSub(entry_price, FScale(PARTIAL_TP_ATR_MULT_TENTHS, r.atr))
      trail_distance == FScale(TRAIL_ATR_MULT_TENTHS, r.atr)
  IN [ symbol |-> sym,
       entry |-> Fmt(entry_price, 100),
       stop_loss |-> Fmt(stop_loss, 100),
       partial_tp |-> Fmt(partial_tp_price, 100),
       trail_distance |-> Fmt(trail_distance, 10),
       context |-> context_lines(r, b, fl) ]

\* Record of one pass of the loop body for one symbol.
\*   gate      which cooldown test skipped the symbol (0: none)
\*   exp       <<expiry>> of the symbol's entry when the pass began
\*   base, rows  rows fetched / rows of the prepared frame (-2: not fetched)
\*   src, core, atr, msg  filled when the row was evaluated
\*   undef     the filters with undefined values, while the message is held
NoEval ==
  [ sym |-> "", outcome |-> "NONE", gate |-> 0, at |-> -1, exp |-> <<>>,
    base |-> -2, rows |-> -2, src |-> <<>>, core |-> <<>>, atr |-> NaN,
    msg |-> <<>>, undef |-> {}, delivered |-> <<>> ]

evaluate(sym, cd, t, f, r, b, fl) ==
  LET exp == IF sym \in DOMAIN cd THEN <<to_datetime(cd[sym])>> ELSE <<>>
      begun == [NoEval EXCEPT !.sym = sym, !.at = t, !.exp = exp]
      fetched == [begun EXCEPT !.base = f.base, !.rows = prep_rows(f)]
      onrow == [fetched EXCEPT !.src = <<row_sources(t, f)>>]
      scored == [onrow EXCEPT
                   !.core = <<r.close, r.close_boom_ago, r.close_slowdown_ago>>]
  IN IF is_cooling_down(cd, sym, t)
       THEN [begun EXCEPT !.outcome = "SKIPPED_COOLDOWN", !.gate = 1]
     ELSE IF prep_rows(f) <= 0
       THEN [fetched EXCEPT !.outcome = "DATA_UNAVAILABLE"]
     ELSE IF prep_rows(f) < 2
       THEN [fetched EXCEPT !.outcome = "INDEX_ERROR"]
     ELSE IF bar_in_cooldown(cd, sym, last_candle_ts(t, f))
       THEN [onrow EXCEPT !.outcome = "SKIPPED_COOLDOWN", !.gate = 2]
     ELSE IF ~is_core_signal(r)
       THEN [scored EXCEPT !.outcome = "NO_SIGNAL"]
     ELSE [scored EXCEPT !.outcome = "SIGNAL_RAISED", !.atr = r.atr,
                         !.msg = <<build_message(sym, r, b, fl)>>,
                         !.undef = undefined_filters(r, b)]

\* Variant: a failed delivery escapes send_telegram_message.
after_send_raising(delivered) == IF delivered THEN "place" ELSE "dead"

\* Variant: the cooldown lasts one base bar.
cooldown_end_one_bar(t) == t + BOT_TIMEFRAME_MINUTES

\* send_telegram_message swallows every Exception: the loop goes on to the
\* cooldown write whether or not the message was delivered.
after_send(delivered) == "place"

\* Line 298: cooldown_end.
cooldown_end(t) == t + SIGNAL_COOLDOWN_MINUTES

\* Variant: the scheduler starts the job on a thread of its own whenever it is
\* due.
job_may_start_threaded(p, w) == p = "boot" \/ (p \notin {"down", "dead"} /\ w = 0)

\* Lines 313-318: check_for_signals is called once at start-up and then by
\* schedule.run_pending from the main loop, which runs a due job to its end
\* before it looks at the clock again.  p is the position of the process, w
\* the minutes until the job is due.
job_may_start(p, w) == p = "boot" \/ (p = "idle" /\ w = 0)

\* ------------------------------------------------------------------------
\* State.
\* ------------------------------------------------------------------------
VARIABLES
  now,        \* wall clock, minutes
  file,       \* signal_cooldowns.json
  pc,         \* where the process is: boot, idle, loop, notify, place,
              \* write, dead (killed by an exception), down (stopped)
  err,        \* the exception that killed the process, "" if none
  wait,       \* minutes until the scheduled job is due again
  flags,      \* the switches of config.py in force
  cooldowns,  \* the dict check_for_signals holds
  btc_df,     \* check_for_signals holds a BTC frame (is not None)
  symbols,    \* the symbol list read from symbols.txt
  i,          \* position of the loop in the symbol list
  last,       \* record of the latest pass of the loop body
  sent,       \* per symbol, the notifications handed to Telegram so far
  saving,     \* <<[old, new]>> once save_cooldowns has opened the file
  kills,      \* how often the process was killed in the middle of a cycle
  running,    \* calls of check_for_signals that have begun and not ended
  timeframe,  \* minutes of cfg.BOT_TIMEFRAME
  prep_pc,    \* where _prep_live_data and the row selection stand
  df5,        \* the base frame of _prep_live_data
  df_atr_tf,  \* the ATR frame with its indicator column
  df_prep,    \* the frame _prep_live_data returned
  last_candle \* <<row>> once df_prep.iloc[-2] was taken

\* The variables of the cycle and those of the data preparation.
botvars ==
  <<now, file, pc, err, wait, flags, cooldowns, btc_df, symbols, i, last, sent,
    saving, kills, running>>
prepvars == <<timeframe, prep_pc, df5, df_atr_tf, df_prep, last_candle>>

vars ==
  <<now, file, pc, err, wait, flags, cooldowns, btc_df, symbols, i, last, sent,
    saving, kills, running, timeframe, prep_pc, df5, df_atr_tf, df_prep,
    last_candle>>

\* No data preparation on concrete frames is under way.
PrepOff ==
  /\ timeframe = BOT_TIMEFRAME_MINUTES
  /\ prep_pc = "off"
  /\ df5 = <<>>
  /\ df_atr_tf = <<>>
  /\ df_prep = <<>>
  /\ last_candle = <<>>

\* Process memory before check_for_signals runs.
Fresh ==
  /\ cooldowns' = EmptyDict
  /\ btc_df' = FALSE
  /\ symbols' = <<>>
  /\ i' = 0
  /\ last' = NoEval
  /\ saving' = <<>>

Init ==
  /\ now = 0
  /\ file = FileMissing
  /\ pc = "boot"
  /\ err = ""
  /\ wait = 0
  /\ flags = ConfigFlags
  /\ cooldowns = EmptyDict
  /\ btc_df = FALSE
  /\ symbols = <<>>
  /\ i = 0
  /\ last = NoEval
  /\ sent = [s \in Symbols |-> <<>>]
  /\ saving = <<>>
  /\ kills = 0
  /\ running = 0
  /\ PrepOff

\* The store may be in any condition when the process is started.
InitFault ==
  /\ now = 0
  /\ file \in {FileMissing, FileObject(EmptyDict), FilePartial,
               FileUndecodable, FileUnreadable}
  /\ pc = "boot"
  /\ err = ""
  /\ wait = 0
  /\ flags = ConfigFlags
  /\ cooldowns = EmptyDict
  /\ btc_df = FALSE
  /\ symbols = <<>>
  /\ i = 0
  /\ last = NoEval
  /\ sent = [s \in Symbols |-> <<>>]
  /\ saving = <<>>
  /\ kills = 0
  /\ running = 0
  /\ PrepOff

\* ------------------------------------------------------------------------
\* Actions.
\* ------------------------------------------------------------------------
\* check_for_signals, lines 187-205: called at start-up (line 313) and by the
\* scheduler when the job is due.  Loads the cooldowns, fetches the BTC frame
\* when both BTC switches are on, reads the symbol list; returns at once when
\* symbols.txt is missing (list <<>>).
StartCycle(Settings, BtcFetches, Lists) ==
  /\ job_may_start(pc, wait)
  /\ \E fl \in Settings :
       /\ flags' = fl
       /\ IF load_raises(file) # ""
          THEN /\ pc' = "dead"
               /\ err' = load_raises(file)
               /\ running' = 0
               /\ Fresh
               /\ UNCHANGED wait
          ELSE \E got_btc \in BtcFetches, list \in Lists \cup {<<>>} :
               /\ got_btc => (fl.SHOW_BTC_FAST_FILTER_CONTEXT /\ fl.BTC_FAST_FILTER_ENABLED)
               /\ err' = ""
               /\ last' = NoEval
               /\ saving' = <<>>
               /\ IF list # <<>>
                  THEN /\ pc' = "loop"
                       /\ cooldowns' = load_cooldowns(file)
                       /\ btc_df' = got_btc
                       /\ symbols' = list
                       /\ i' = 1
                       /\ running' = running + 1
                       /\ UNCHANGED wait
                  ELSE /\ pc' = "idle"
                       /\ cooldowns' = EmptyDict
                       /\ btc_df' = FALSE
                       /\ symbols' = <<>>
                       /\ i' = 0
                       /\ wait' = BOT_SCHEDULE_MINUTES
                       /\ UNCHANGED running
  /\ UNCHANGED <<now, file, sent, kills>>
  /\ UNCHANGED prepvars

\* Lines 207-294: one pass of the loop body up to the built message.  The
\* inputs are drawn where the code reads them: no fetch for a symbol that is
\* cooling down, no row of a frame that is not evaluated, no BTC row when
\* there is no BTC frame.
EvalSymbol(Fetches, Rows, Btcs) ==
  /\ pc = "loop"
  /\ i <= Len(symbols)
  /\ LET sym == symbols[i]
         any_f == CHOOSE f \in Fetches : TRUE
         any_r == CHOOSE r \in Rows : TRUE
         any_b == CHOOSE b \in Btcs : TRUE
     IN \E f \in IF is_cooling_down(cooldowns, sym, now) THEN {any_f} ELSE Fetches :
        LET reads == /\ ~is_cooling_down(cooldowns, sym, now)
                     /\ prep_rows(f) >= 2
                     /\ ~bar_in_cooldown(cooldowns, sym, last_candle_ts(now, f))
        IN \E r \in IF reads THEN Rows ELSE {any_r},
              b \in IF reads /\ btc_df THEN Btcs ELSE {any_b} :
           LET res == evaluate(sym, cooldowns, now, f, r,
                               IF btc_df THEN <<b>> ELSE <<>>, flags)
           IN /\ last' = res
              /\ pc' = CASE res.outcome = "SIGNAL_RAISED" -> "notify"
                         [] res.outcome = "INDEX_ERROR" -> "dead"
                         [] OTHER -> "loop"
              /\ err' = IF res.outcome = "INDEX_ERROR" THEN "IndexError" ELSE err
              /\ i' = IF res.outcome \in {"SIGNAL_RAISED", "INDEX_ERROR"}
                      THEN i ELSE i + 1
              /\ running' = IF res.outcome = "INDEX_ERROR" THEN 0 ELSE running
  /\ UNCHANGED <<now, file, wait, flags, cooldowns, btc_df, symbols, sent, saving, kills>>
  /\ UNCHANGED prepvars

\* Line 296: asyncio.run(send_telegram_message(message)).
Notify ==
  /\ pc = "notify"
  /\ \E delivered \in BOOLEAN :
       /\ sent' = [sent EXCEPT ![last.sym] = Append(@, now)]
       /\ last' = [last EXCEPT !.delivered = <<delivered>>, !.msg = <<>>,
                               !.undef = {}]
       /\ pc' = after_send(delivered)
       /\ err' = IF after_send(delivered) = "dead" THEN "TelegramError" ELSE err
       /\ running' = IF after_send(delivered) = "dead" THEN 0 ELSE running
  /\ UNCHANGED <<now, file, wait, flags, cooldowns, btc_df, symbols, i, saving, kills>>
  /\ UNCHANGED prepvars

\* Lines 298-300, first half: the entry is put in the dict and save_cooldowns
\* opens the file for writing, which truncates it.
SaveOpen ==
  /\ pc = "place"
  /\ cooldowns' = DictSet(cooldowns, last.sym, isoformat(cooldown_end(now)))
  /\ saving' = << [old |-> load_cooldowns(file), new |-> cooldowns'] >>
  /\ file' = FilePartial
  /\ pc' = "write"
  /\ UNCHANGED <<now, err, wait, flags, btc_df, symbols, i, last, sent, kills, running>>
  /\ UNCHANGED prepvars

\* Lines 300-305, second half: json.dump writes the dict and the file is
\* closed; the loop moves to the next symbol.
SaveWrite ==
  /\ pc = "write"
  /\ file' = FileObject(cooldowns)
  /\ pc' = "loop"
  /\ i' = i + 1
  /\ UNCHANGED <<now, err, wait, flags, cooldowns, btc_df, symbols, last, sent, saving, kills, running>>
  /\ UNCHANGED prepvars

\* The loop is exhausted: check_for_signals returns and the scheduler sets
\* the next run BOT_SCHEDULE_MINUTES later.
EndCycle ==
  /\ pc = "loop"
  /\ i > Len(symbols)
  /\ pc' = "idle"
  /\ wait' = BOT_SCHEDULE_MINUTES
  /\ running' = running - 1
  /\ Fresh
  /\ UNCHANGED <<now, file, err, flags, sent, kills>>
  /\ UNCHANGED prepvars

\* A minute passes while the process sleeps between two cycles.
Tick(limit) ==
  /\ pc = "idle"
  /\ now < limit
  /\ now' = now + 1
  /\ wait' = IF wait > 0 THEN wait - 1 ELSE 0
  /\ UNCHANGED <<file, pc, err, flags, cooldowns, btc_df, symbols, i, last, sent, saving, kills, running>>
  /\ UNCHANGED prepvars

\* A minute passes between the send (line 296) and pd.Timestamp.now (line 298).
Delay ==
  /\ pc = "place"
  /\ now < MaxDelay
  /\ now' = now + 1
  /\ UNCHANGED <<file, pc, err, wait, flags, cooldowns, btc_df, symbols, i, last, sent, saving, kills, running>>
  /\ UNCHANGED prepvars

\* A minute passes while a cycle is running (the loop body blocks in its
\* fetches): the main loop is inside the job and does not look at the clock.
Slow(limit) ==
  /\ pc = "loop"
  /\ now < limit
  /\ now' = now + 1
  /\ UNCHANGED <<file, pc, err, wait, flags, cooldowns, btc_df, symbols, i, last, sent, saving, kills, running>>
  /\ UNCHANGED prepvars

\* The process is stopped between two cycles.
Stop ==
  /\ pc = "idle"
  /\ pc' = "down"
  /\ wait' = 0
  /\ running' = 0
  /\ Fresh
  /\ UNCHANGED <<now, file, err, flags, sent, kills>>
  /\ UNCHANGED prepvars

\* The process is started again (__main__): nothing but the file survives.
Restart ==
  /\ pc \in {"down", "dead"}
  /\ pc' = "boot"
  /\ err' = ""
  /\ wait' = 0
  /\ running' = 0
  /\ Fresh
  /\ UNCHANGED <<now, file, flags, sent, kills>>
  /\ UNCHANGED prepvars

\* The process is killed in the middle of a cycle.
Crash ==
  /\ pc \in {"loop", "notify", "place", "write"}
  /\ kills < MaxCrashes
  /\ kills' = kills + 1
  /\ pc' = "down"
  /\ wait' = 0
  /\ cooldowns' = EmptyDict
  /\ btc_df' = FALSE
  /\ symbols' = <<>>
  /\ i' = 0
  /\ last' = NoEval
  /\ running' = 0
  /\ UNCHANGED <<now, file, err, flags, sent, saving>>
  /\ UNCHANGED prepvars

\* ------------------------------------------------------------------------
\* Actions of the data preparation on concrete frames, for one symbol.
\* ------------------------------------------------------------------------
\* The bot is started with the configured base timeframe and its first cycle
\* reaches _prep_live_data for a symbol at one of a few times of day.
PrepBoot(Timeframes) ==
  /\ now \in {0, 5 * ATR_TIMEFRAME_MINUTES + 7}
  /\ file = FileMissing
  /\ pc = "boot"
  /\ err = ""
  /\ wait = 0
  /\ flags = ConfigFlags
  /\ cooldowns = EmptyDict
  /\ btc_df = FALSE
  /\ symbols = <<>>
  /\ i = 0
  /\ last = NoEval
  /\ sent = [s \in Symbols |-> <<>>]
  /\ saving = <<>>
  /\ kills = 0
  /\ running = 0
  /\ timeframe \in Timeframes
  /\ prep_pc = "boot"
  /\ df5 = <<>>
  /\ df_atr_tf = <<>>
  /\ df_prep = <<>>
  /\ last_candle = <<>>

\* Lines 311-313 and 185-215: nothing looks at the configuration before the
\* first cycle calls _prep_live_data.
PrepStart ==
  /\ prep_pc = "boot"
  /\ prep_pc' = "fetch"
  /\ UNCHANGED <<timeframe, df5, df_atr_tf, df_prep, last_candle>>
  /\ UNCHANGED botvars

\* Lines 125-143: the fetches and the indicator columns.  A fetch that
\* returned None (n = 0, m = 0) makes _prep_live_data return None.
PrepFetch ==
  /\ prep_pc = "fetch"
  /\ \E n \in BaseLengths(timeframe), shape \in CloseShapes,
        m \in SourceLengths, warm \in {0, 2}, hole \in {0, 1} :
       /\ (m = 0 \/ n = 0) => (shape = "rising" /\ warm = 0 /\ hole = 0)
       /\ IF n = 0 \/ m = 0
          THEN /\ prep_pc' = "none"
               /\ UNCHANGED <<df5, df_atr_tf>>
          ELSE /\ prep_pc' = "fetched"
               /\ df5' = base_frame(now, timeframe, n, shape)
               /\ df_atr_tf' = atr_frame(now, m, warm, hole)
  /\ UNCHANGED <<timeframe, df_prep, last_candle>>
  /\ UNCHANGED botvars

\* Line 147: the ATR column is aligned onto the base index.
PrepMerge ==
  /\ prep_pc = "fetched"
  /\ LET aligned == reindex_ffill(df_atr_tf, "atr", index_of(df5))
     IN df5' = [k \in 1..Len(df5) |->
                  [ts |-> df5[k].ts, close |-> df5[k].close, atr |-> aligned[k]]]
  /\ prep_pc' = "merged"
  /\ UNCHANGED <<timeframe, df_atr_tf, df_prep, last_candle>>
  /\ UNCHANGED botvars

\* Lines 172-176: the two look-back columns.
PrepLookback ==
  /\ prep_pc = "merged"
  /\ LET boom_ago == shift(column(df5, "close"), boom_bar_count(timeframe))
         slow_ago == shift(column(df5, "close"), slowdown_bar_count(timeframe))
     IN df5' = [k \in 1..Len(df5) |->
                  [ts |-> df5[k].ts, close |-> df5[k].close, atr |-> df5[k].atr,
                   close_boom_ago |-> boom_ago[k],
                   close_slowdown_ago |-> slow_ago[k]]]
  /\ prep_pc' = "shifted"
  /\ UNCHANGED <<timeframe, df_atr_tf, df_prep, last_candle>>
  /\ UNCHANGED botvars

\* Line 178: the rows with an undefined look-back are dropped and the frame
\* is returned.
PrepDropna ==
  /\ prep_pc = "shifted"
  /\ df_prep' = dropna(df5)
  /\ prep_pc' = "returned"
  /\ UNCHANGED <<timeframe, df5, df_atr_tf, last_candle>>
  /\ UNCHANGED botvars

\* Lines 217-221: None or an empty frame skips the symbol, iloc[-2] takes the
\* second-to-last row and raises IndexError on a frame of one row.
PrepSelect ==
  /\ prep_pc \in {"none", "returned"}
  /\ IF prep_pc = "none" \/ Len(df_prep) = 0
     THEN prep_pc' = "skipped" /\ UNCHANGED last_candle
     ELSE IF Len(df_prep) < 2
     THEN prep_pc' = "dead" /\ UNCHANGED last_candle
     ELSE prep_pc' = "selected" /\ last_candle' = <<df_prep[Len(df_prep) - 1]>>
  /\ UNCHANGED <<timeframe, df5, df_atr_tf, df_prep>>
  /\ UNCHANGED botvars

\* ------------------------------------------------------------------------
\* Specifications.
\* ------------------------------------------------------------------------
\* The bot over time, with restarts between cycles.
Next ==
  \/ StartCycle({ConfigFlags}, {TRUE}, {ListABA})
  \/ EvalSymbol(FewFetches, FewRows, FewBtcRows)
  \/ Notify
  \/ Delay
  \/ SaveOpen
  \/ SaveWrite
  \/ EndCycle
  \/ Tick(MaxTime)
  \/ Stop
  \/ Restart

Spec == Init /\ [][Next]_vars

\* One cycle over one symbol, for every row, BTC row and switch setting.
NextEval ==
  \/ StartCycle(AllFlags, BOOLEAN, {ListA})
  \/ EvalSymbol(FetchResults, RichRows, BtcRows)
  \/ Notify
  \/ Delay
  \/ SaveOpen
  \/ SaveWrite
  \/ EndCycle
  \/ Stop
  \/ Restart

SpecEval == Init /\ [][NextEval]_vars

\* The bot with kills at any point and any store at start-up.
NextFault ==
  \/ StartCycle({ConfigFlags}, {TRUE}, {ListABA})
  \/ EvalSymbol(FewFetches, FewRows, FewBtcRows)
  \/ Notify
  \/ SaveOpen
  \/ SaveWrite
  \/ EndCycle
  \/ Tick(MaxFaultTime)
  \/ Stop
  \/ Restart
  \/ Crash

SpecFault == InitFault /\ [][NextFault]_vars

\* The bot with cycles that take longer than the schedule interval.
NextSlow ==
  \/ StartCycle({ConfigFlags}, {TRUE}, {ListABA})
  \/ EvalSymbol(FewFetches, FewRows, FewBtcRows)
  \/ Notify
  \/ Delay
  \/ SaveOpen
  \/ SaveWrite
  \/ EndCycle
  \/ Slow(MaxSlowTime)
  \/ Tick(MaxSlowTime)
  \/ Stop
  \/ Restart

SpecSlow == Init /\ [][NextSlow]_vars

\* The data preparation of one symbol on concrete frames, as configured.
NextPrep ==
  \/ PrepStart
  \/ PrepFetch
  \/ PrepMerge
  \/ PrepLookback
  \/ PrepDropna
  \/ PrepSelect

InitPrep == PrepBoot({BOT_TIMEFRAME_MINUTES})

SpecPrep == InitPrep /\ [][NextPrep]_vars

\* The same with BOT_TIMEFRAME set to the configured 5m, to 15m or to 7m.
ConfiguredTimeframes == {BOT_TIMEFRAME_MINUTES, 3 * BOT_TIMEFRAME_MINUTES, 7}
InitConfig == PrepBoot(ConfiguredTimeframes)

SpecConfig == InitConfig /\ [][NextPrep]_vars

\* ------------------------------------------------------------------------
\* Properties.
\* ------------------------------------------------------------------------
\* The latest pass evaluated a row.
Evaluated == last.outcome \in {"NO_SIGNAL", "SIGNAL_RAISED"}

\* The latest pass is over and the loop stands at the next symbol.
PassDone == pc = "loop" /\ i >= 2 /\ symbols[i - 1] = last.sym

\* The symbol of the latest pass has the entry in dict and file that it had
\* when the pass began.
EntryUntouched ==
  LET d == load_cooldowns(file)
  IN IF last.exp = <<>>
     THEN last.sym \notin DOMAIN cooldowns /\ last.sym \notin DOMAIN d
     ELSE /\ last.sym \in DOMAIN cooldowns /\ last.sym \in DOMAIN d
          /\ to_datetime(cooldowns[last.sym]) = last.exp[1]
          /\ to_datetime(d[last.sym]) = last.exp[1]

\* The symbol of the latest pass has, in dict and file, an entry written
\* during the pass.
EntryWritten ==
  /\ file.kind = "object"
  /\ last.sym \in DOMAIN file.data
  /\ last.sym \in DOMAIN cooldowns
  /\ file.data[last.sym] = cooldowns[last.sym]
  /\ to_datetime(file.data[last.sym]) >= last.at + SIGNAL_COOLDOWN_MINUTES

\* A notification for the symbol of the latest pass went out during the pass.
NotifiedInPass ==
  \E k \in DOMAIN sent[last.sym] : sent[last.sym][k] >= last.at

\* C1: no double-firing.  Any two notifications for one symbol lie at least
\* SIGNAL_COOLDOWN_MINUTES apart, over every run of cycles, with restarts
\* between cycles and with a symbol listed twice in one cycle.
C1_NoDoubleFiring ==
  \A s \in Symbols : \A j, k \in DOMAIN sent[s] :
    j < k => sent[s][k] >= sent[s][j] + SIGNAL_COOLDOWN_MINUTES

\* A symbol was notified, cooled down, and was notified again.
C1_Witness == \E s \in Symbols : Len(sent[s]) >= 2

BoomReturnReached(c) ==
  c[1] * PRICE_BOOM_PCT_DEN >= c[2] * (PRICE_BOOM_PCT_DEN + PRICE_BOOM_PCT_NUM)
SlowdownReturnKept(c) ==
  c[1] * PRICE_SLOWDOWN_PCT_DEN
    <= c[3] * (PRICE_SLOWDOWN_PCT_DEN + PRICE_SLOWDOWN_PCT_NUM)

\* C3: a row that is evaluated raises a signal exactly when
\* close/close_boom_ago - 1 >= boom threshold and close/close_slowdown_ago - 1
\* <= slowdown threshold; a raised signal is notified and its cooldown
\* written by the end of the pass, every other row ends in NO_SIGNAL with no
\* notification and no cooldown write.
C3_SignalIffBoomAndSlowdown ==
  last.core # <<>> =>
    /\ Evaluated
    /\ last.outcome = "SIGNAL_RAISED"
         <=> (BoomReturnReached(last.core) /\ SlowdownReturnKept(last.core))
    /\ last.outcome = "SIGNAL_RAISED" =>
         /\ pc \in {"notify", "place", "write", "loop"}
         /\ pc # "notify" => NotifiedInPass
         /\ pc = "loop" => (PassDone /\ EntryWritten)
    /\ last.outcome = "NO_SIGNAL" =>
         (PassDone /\ ~NotifiedInPass /\ EntryUntouched)

\* A boom of exactly the threshold with a slowdown within it was notified and
\* its cooldown written.
C3_Witness ==
  /\ last.outcome = "SIGNAL_RAISED"
  /\ last.core[1] * PRICE_BOOM_PCT_DEN
       = last.core[2] * (PRICE_BOOM_PCT_DEN + PRICE_BOOM_PCT_NUM)
  /\ PassDone
  /\ EntryWritten

\* The pass of `last` run again on the same symbol, cooldown entry, time,
\* frame length and closes, with every auxiliary value undefined, no BTC
\* frame and every switch off.
ReferencePass ==
  LET cd == IF last.exp = <<>> THEN EmptyDict
            ELSE DictSet(EmptyDict, last.sym, isoformat(last.exp[1]))
      f == [base |-> last.base, others |-> TRUE]
      r == MakeRow(last.core[1], last.core[2], last.core[3],
                   last.atr, NaN, NaN, NaN, NaN, NaN)
      off == [ SHOW_EMA_TREND_CONTEXT |-> FALSE, SHOW_RSI_CONTEXT |-> FALSE,
               SHOW_ADX_CONTEXT |-> FALSE, SHOW_STRUCTURAL_CONTEXT |-> FALSE,
               SHOW_BTC_FAST_FILTER_CONTEXT |-> FALSE,
               BTC_FAST_FILTER_ENABLED |-> FALSE ]
  IN evaluate(last.sym, cd, last.at, f, r, <<>>, off)

\* C4: the auxiliary filters are advisory.  Whatever the EMA pair, RSI, ADX,
\* 30-day return, BTC row and switches of a pass were, its outcome is that of
\* the same pass with all of them undefined or off (so any two passes that
\* differ only in them agree), and notification and cooldown write follow
\* the outcome alone.
C4_AuxiliaryFiltersAdvisory ==
  last.core # <<>> =>
    /\ last.outcome = ReferencePass.outcome
    /\ PassDone => (NotifiedInPass <=> ReferencePass.outcome = "SIGNAL_RAISED")
    /\ PassDone => (EntryWritten <=> ReferencePass.outcome = "SIGNAL_RAISED")

\* A signal went out although an auxiliary filter on the row failed.
C4_Witness ==
  /\ last.outcome = "SIGNAL_RAISED"
  /\ last.msg # <<>>
  /\ \E k \in DOMAIN last.msg[1].context : last.msg[1].context[k][2] = "fail"

\* C5: a symbol whose fetch failed or whose frame is empty or too short to
\* have a second-to-last row is skipped, and the loop goes on: the cycle is
\* never aborted.
C5_FetchFailureIsolated ==
  (last.rows # -2 /\ last.rows < 2) =>
    (last.outcome = "DATA_UNAVAILABLE" /\ PassDone /\ err = "")

\* C6: the evaluated row is the second-to-last row of the base frame, its bar
\* was closed at fetch time, and so was every bar a value on the row is taken
\* from: the sources of the aligned ATR, EMA, RSI, ADX and BTC values and of
\* the close behind the 30-day return.
C6_ClosedBarsOnly ==
  (last.outcome = "SIGNAL_RAISED" /\ last.src # <<>>) =>
    LET src == last.src[1]
        closed(ts, interval) == ~in_progress(ts, interval, last.at)
    IN /\ src.bar = src.ret - BOT_TIMEFRAME_MINUTES
       /\ closed(src.bar, BOT_TIMEFRAME_MINUTES)
       /\ src.atr # <<>> => closed(src.atr[1], ATR_TIMEFRAME_MINUTES)
       /\ src.ema # <<>> => closed(src.ema[1], FOUR_HOUR_MINUTES)
       /\ src.rsi # <<>> => closed(src.rsi[1], RSI_TIMEFRAME_MINUTES)
       /\ src.adx # <<>> => closed(src.adx[1], ADX_TIMEFRAME_MINUTES)
       /\ src.btc # <<>> => closed(src.btc[1], BTC_FAST_TIMEFRAME_MINUTES)
       /\ closed(src.ret, BOT_TIMEFRAME_MINUTES)

\* C7: save_cooldowns is atomic.  From the moment it opens the file, at every
\* point where the process may stop, a load returns the mapping stored before
\* the save or the new one.
C7_SaveAtomic ==
  saving # <<>> =>
    /\ load_raises(file) = ""
    /\ load_cooldowns(file) \in {saving[1].old, saving[1].new}

\* C8: the store fails open.  load_cooldowns never raises: no cycle dies in
\* it, and a cycle that starts on a missing, corrupt or unreadable file enters
\* its loop with the empty mapping.
C8_StoreFailsOpen ==
  /\ ~(pc = "dead" /\ err \in {"PermissionError", "UnicodeDecodeError"})
  /\ (pc = "loop" /\ i = 1 /\ file.kind # "object") => cooldowns = EmptyDict

\* C9: a failed delivery does not touch the cooldown.  After a signal whose
\* notification was not delivered the process is not dead, the pass goes on
\* to the write, and when the loop reaches the next symbol the entry is in
\* the dict and in the file.
C9_DeliveryFailureKeepsCooldown ==
  (last.outcome = "SIGNAL_RAISED" /\ last.delivered = <<FALSE>>) =>
    /\ pc \in {"place", "write", "loop"}
    /\ err = ""
    /\ pc = "loop" => (PassDone /\ EntryWritten)

\* A delivery failed, the entry was written and the loop stands at the next
\* symbol of the list.
C9_Witness ==
  /\ last.outcome = "SIGNAL_RAISED"
  /\ last.delivered = <<FALSE>>
  /\ PassDone
  /\ i <= Len(symbols)
  /\ EntryWritten

\* C10: a signal on a row whose ATR is undefined is raised with no trade
\* parameters: no stop-loss, take-profit or trail value in the alert is a NaN.
C10_NoNaNTradeParameters ==
  (last.outcome = "SIGNAL_RAISED" /\ last.atr = NaN /\ last.msg # <<>>) =>
    /\ last.msg[1].stop_loss[1] # "nan"
    /\ last.msg[1].partial_tp[1] # "nan"
    /\ last.msg[1].trail_distance[1] # "nan"

\* The ATR column has been aligned onto the base frame.
Merged == prep_pc \in {"merged", "shifted", "returned", "selected", "skipped", "dead"} /\ df5 # <<>>

\* Rows of the ATR frame whose label is not later than T.
SourceRowsUpTo(T) == {j \in DOMAIN df_atr_tf : df_atr_tf[j].ts <= T}

\* C11: forward-fill alignment.  On every row of the base frame the aligned
\* ATR is the ATR of the source row with the greatest timestamp not later
\* than the row's timestamp, and it is undefined when the row precedes the
\* first source row; the row that is evaluated carries that value.
C11_ForwardFillAlignment ==
  Merged =>
    /\ \A k \in DOMAIN df5 :
         LET S == SourceRowsUpTo(df5[k].ts)
         IN /\ df5[k].ts < df_atr_tf[1].ts => df5[k].atr = NaN
            /\ IF S = {} THEN df5[k].atr = NaN
               ELSE \E j \in S :
                      /\ \A j2 \in S : df_atr_tf[j2].ts <= df_atr_tf[j].ts
                      /\ df5[k].atr = df_atr_tf[j].atr
    /\ last_candle # <<>> =>
         \E k \in DOMAIN df5 :
           df5[k].ts = last_candle[1].ts /\ df5[k].atr = last_candle[1].atr

\* A base frame that begins before the source does: a row left undefined, a
\* row that carries the value of an earlier source bar across a missing one,
\* and a row whose timestamp is that of its source row.
C11_Witness ==
  /\ prep_pc = "merged"
  /\ \E k \in DOMAIN df5 : df5[k].ts < df_atr_tf[1].ts /\ df5[k].atr = NaN
  /\ \E k \in DOMAIN df5 : \E j \in DOMAIN df_atr_tf :
       /\ df_atr_tf[j].ts + ATR_TIMEFRAME_MINUTES <= df5[k].ts
       /\ notna(df5[k].atr)
       /\ df5[k].atr = df_atr_tf[j].atr
  /\ \E k \in DOMAIN df5 : \E j \in DOMAIN df_atr_tf :
       df_atr_tf[j].ts = df5[k].ts /\ notna(df5[k].atr) /\ df5[k].atr = df_atr_tf[j].atr

\* C12: a base timeframe whose minutes do not divide 60 is rejected at
\* start-up: the process never gets as far as a cycle, no look-back column is
\* computed with a bar count from the floored bars-per-hour and no row is
\* selected for evaluation.
C12_TimeframeMustDivideHour ==
  60 % timeframe # 0 =>
    /\ prep_pc \in {"boot", "rejected"}
    /\ \A k \in DOMAIN df5 : "close_boom_ago" \notin DOMAIN df5[k]
    /\ last_candle = <<>>

\* C13: placing a symbol on cooldown overwrites.  When the entry is written
\* it is (time of the write) + SIGNAL_COOLDOWN_MINUTES, the mapping has the
\* entries it had and the symbol's, one per symbol, and an entry the symbol
\* had before is neither kept nor extended by the duration; the file holds
\* that entry once the save is done.
C13_PlaceOnCooldownOverwrites ==
  /\ pc = "write" =>
       LET old == saving[1].old
           new == saving[1].new
           s == last.sym
       IN /\ cooldowns = new
          /\ DOMAIN new = DOMAIN old \cup {s}
          /\ new[s] = isoformat(now + SIGNAL_COOLDOWN_MINUTES)
          /\ s \in DOMAIN old =>
               /\ to_datetime(new[s]) # to_datetime(old[s])
               /\ to_datetime(new[s]) # to_datetime(old[s]) + SIGNAL_COOLDOWN_MINUTES
  /\ (PassDone /\ last.outcome = "SIGNAL_RAISED") =>
       /\ file = FileObject(cooldowns)
       /\ file.data[last.sym] = isoformat(now + SIGNAL_COOLDOWN_MINUTES)

\* A symbol that had an entry signalled again and its entry was replaced.
C13_Witness ==
  /\ PassDone
  /\ last.outcome = "SIGNAL_RAISED"
  /\ last.exp # <<>>
  /\ saving # <<>>
  /\ last.sym \in DOMAIN saving[1].old
  /\ file.data[last.sym] = isoformat(now + SIGNAL_COOLDOWN_MINUTES)

\* The process is inside check_for_signals.
InCycle == pc \in {"loop", "notify", "place", "write"}

\* C14: cycles never overlap and symbols are evaluated one after the other.
\* At most one call of check_for_signals is under way, it is under way
\* exactly while the process is inside a cycle, the symbol being notified or
\* written is the one the loop stands at, and while a cycle runs past the
\* time the job is due again no second call begins.
C14_CyclesNeverOverlap ==
  /\ running <= 1
  /\ InCycle <=> running = 1
  /\ InCycle => i \in 1..(Len(symbols) + 1)
  /\ pc \in {"notify", "place", "write"} =>
       (i \in DOMAIN symbols /\ last.sym = symbols[i])

\* A cycle that evaluated a symbol a full schedule interval ago is still
\* running, alone, with the job due and symbols left to evaluate.
C14_Witness ==
  /\ pc = "loop"
  /\ running = 1
  /\ wait = 0
  /\ i \in DOMAIN symbols
  /\ last.outcome # "NONE"
  /\ now >= last.at + BOT_SCHEDULE_MINUTES

\* C15: the cooldown is persisted before the notification.  Once the
\* notification of a raised signal has been handed to the notifier, the file
\* already holds an entry for the symbol that expires in the future.
C15_CooldownPersistedBeforeNotify ==
  (last.outcome = "SIGNAL_RAISED" /\ last.delivered # <<>> /\ pc = "place") =>
    /\ file.kind = "object"
    /\ last.sym \in DOMAIN file.data
    /\ to_datetime(file.data[last.sym]) > now

\* Entry of symbol s in mapping d, <<>> when it has none.
EntryOf(d, s) == IF s \in DOMAIN d THEN <<d[s]>> ELSE <<>>

\* C16: the persisted store changes only when a signal is raised, and only
\* in the entry of the signalling symbol.  A step that is not part of the
\* save after a raised signal leaves the file as it is; the save does not
\* begin unless the pass raised a signal; and when it is done every other
\* symbol has the entry in the file that it had before the save, expired or
\* not.
C16_StoreChangesOnlyOnSignal ==
  [][ /\ pc \notin {"place", "write"} => file' = file
      /\ pc \in {"place", "write"} => last.outcome = "SIGNAL_RAISED"
      /\ (pc = "place" /\ pc' = "place") => file' = file
      /\ (pc = "write" /\ pc' = "loop") =>
           /\ file'.kind = "object"
           /\ \A s \in Symbols \ {last.sym} :
                EntryOf(file'.data, s) = EntryOf(saving[1].old, s)
    ]_vars

\* A save for one symbol is done and the file still holds the entry of
\* another symbol that expired before the save.
C16_Witness ==
  /\ PassDone
  /\ last.outcome = "SIGNAL_RAISED"
  /\ saving # <<>>
  /\ file.kind = "object"
  /\ \E s \in Symbols \ {last.sym} :
       /\ s \in DOMAIN saving[1].old
       /\ s \in DOMAIN file.data
       /\ to_datetime(file.data[s]) <= now

\* C17: an undefined auxiliary value is never reported as a failed filter.
\* In the alert of a raised signal every line of a filter whose value on the
\* row is undefined says N/A; the filter has no line otherwise.
C17_UndefinedNeverReportedFailed ==
  (last.outcome = "SIGNAL_RAISED" /\ last.msg # <<>>) =>
    \A k \in DOMAIN last.msg[1].context :
      LET line == last.msg[1].context[k]
      IN line[1] \in last.undef => line[2] = "N/A"

\* An alert with every context switch on and every auxiliary value
\* undefined: the EMA line says N/A and the other filters have no line.
C17_Witness ==
  /\ last.outcome = "SIGNAL_RAISED"
  /\ last.msg # <<>>
  /\ flags = ConfigFlags
  /\ btc_df
  /\ last.undef = {"EMA", "RSI", "ADX", "30d", "BTC"}
  /\ last.msg[1].context = << <<"EMA", "N/A">> >>

\* The printed value of a trade parameter of the alert held by `last`.
Printed(name) == last.msg[1][name][2]

\* C18: the alert of a signal raised on a bar with a defined ATR carries
\* entry, stop-loss, partial TP, final TP and trail distance, with entry the
\* close of the evaluated bar, stop_loss = entry + SL_ATR_MULT x ATR,
\* partial_tp = entry - PARTIAL_TP_ATR_MULT x ATR, final_tp = entry -
\* TP_ATR_MULT x ATR and trail_distance = TRAIL_ATR_MULT x ATR; with a
\* positive ATR the stop is above the entry and both take-profits are below
\* it.  Printed prices are in ten-thousandths, the trail distance in
\* hundred-thousandths, the ATR in hundred-thousandths.
C18_TradeParametersReported ==
  (last.outcome = "SIGNAL_RAISED" /\ last.msg # <<>> /\ notna(last.atr)) =>
    LET close == last.core[1]
        atr == last.atr[1]
    IN /\ {"entry", "stop_loss", "partial_tp", "final_tp", "trail_distance"}
            \subseteq DOMAIN last.msg[1]
       /\ Printed("entry") = close
       /\ 10 * Printed("stop_loss") = 10 * close + SL_ATR_MULT * atr
       /\ 100 * Printed("partial_tp") = 100 * close - PARTIAL_TP_ATR_MULT_TENTHS * atr
       /\ 10 * Printed("final_tp") = 10 * close - TP_ATR_MULT * atr
       /\ 10 * Printed("trail_distance") = TRAIL_ATR_MULT_TENTHS * atr
       /\ atr > 0 =>
            /\ Printed("stop_loss") > Printed("entry")
            /\ Printed("partial_tp") < Printed("entry")
            /\ Printed("final_tp") < Printed("entry")

\* The look-back columns have been computed.
Shifted == prep_pc \in {"shifted", "returned", "selected", "skipped", "dead"} /\ df5 # <<>>

\* Bars of the base timeframe that make up the given number of hours.
BarsIn(hours) == CHOOSE n \in 0..(60 * hours) : n * timeframe = 60 * hours

\* The close `count` rows before row k of the base frame, NaN on the first
\* `count` rows.
CloseRowsBefore(k, count) == IF k > count THEN df5[k - count].close ELSE NaN

\* C19: look-back columns.  On every row of the base frame close_boom_ago
\* and close_slowdown_ago are the closes bars_per_hour x hours rows earlier,
\* undefined on the first that many rows; the frame that is returned holds,
\* in order, exactly the rows with both defined; and the row that is
\* evaluated is the second-to-last of them with both look-back closes
\* defined.
C19_LookbackColumns ==
  /\ Shifted =>
       \A k \in DOMAIN df5 :
         /\ df5[k].close_boom_ago = CloseRowsBefore(k, BarsIn(PRICE_BOOM_PERIOD_H))
         /\ df5[k].close_slowdown_ago = CloseRowsBefore(k, BarsIn(PRICE_SLOWDOWN_PERIOD_H))
  /\ prep_pc \in {"returned", "selected", "skipped", "dead"} /\ df5 # <<>> =>
       LET lead == BarsIn(PRICE_BOOM_PERIOD_H)
       IN /\ Len(df_prep) = (IF Len(df5) > lead THEN Len(df5) - lead ELSE 0)
          /\ \A k \in DOMAIN df_prep :
               /\ df_prep[k] = df5[k + lead]
               /\ notna(df_prep[k].close_boom_ago)
               /\ notna(df_prep[k].close_slowdown_ago)
  /\ last_candle # <<>> =>
       /\ last_candle[1] = df5[Len(df5) - 1]
       /\ notna(last_candle[1].close_boom_ago)
       /\ notna(last_candle[1].close_slowdown_ago)
       /\ last_candle[1].close_boom_ago
            = df5[Len(df5) - 1 - BarsIn(PRICE_BOOM_PERIOD_H)].close
       /\ last_candle[1].close_slowdown_ago
            = df5[Len(df5) - 1 - BarsIn(PRICE_SLOWDOWN_PERIOD_H)].close

\* A frame of two rows more than the boom look-back: the first rows were
\* dropped and the evaluated row looks back at the first close of the frame.
C19_Witness ==
  /\ prep_pc = "selected"
  /\ Len(df5) = BOOM_BAR_COUNT + 2
  /\ Len(df_prep) = 2
  /\ last_candle[1].close_boom_ago = df5[1].close
  /\ notna(last_candle[1].close_slowdown_ago)

====
